---- MODULE Spec2Model ----
(***************************************************************************)
(* A model of github.com/ShevaXu/web-utils:                                *)
(*   - semaphore.go: the channel-backed Semaphore (Obtain, Release, Close, *)
(*     Closed, Count, Capacity), called by several goroutines;             *)
(*   - utils.go: Backoff.Next, ShouldRetry, IsTimeoutErr and the retrying  *)
(*     executors SafeClient.RequestWithRetry and SafeClient.DoRequest.     *)
(* The two parts do not share state; each has its own specifications:      *)
(*   SemSpec, SemFairSpec  callers of one semaphore;                       *)
(*   SyncSpec, SyncFairSpec  more goroutines than slots, then Releases;    *)
(*   ExecSpec, ExecAnySpec one call on a client with a valid, or with any, *)
(*                         Backoff; ExecWideSpec with MaxSleep at its top; *)
(*   ConcSpec              concurrent calls on one client;                 *)
(*   PairSpec              RequestWithRetry and DoRequest side by side;    *)
(*   BackoffSpec, StatusSpec  Backoff.Next and ShouldRetry on their own.   *)
(***************************************************************************)
EXTENDS Integers, Sequences, FiniteSets, TLC

(* ---------------------------- bounds ----------------------------------- *)

\* number of goroutines calling into one semaphore
NProcs == 2
\* largest n given to NewSemaphore(n)
MaxCap == 2
\* largest maxTries given to RequestWithRetry and DoRequest
MaxTries == 3
\* smallest maxTries given to them
MinTries == 0 - 1
\* largest Backoff.BaseSleep and Backoff.MaxSleep of a client
MaxBase == 2
MaxCeil == 3
\* smallest Backoff.BaseSleep a struct literal may hold
MinBase == 0 - 1
\* number of goroutines calling RequestWithRetry on one client at once
NExecs == 2
\* the maxTries each of them passes
GoTries == 2
\* number of goroutines that call Obtain on one semaphore of fewer slots
NWorkers == 3
\* largest value the random source yields for one rand.Intn
MaxDraw == 2
\* width in bits of Go's int, scaled down
IntBits == 5
\* largest status code given to ShouldRetry
MaxStatus == 600

\* the range of int, and the value an int operation yields when its exact
\* result lies outside it
MaxInt == 2^(IntBits - 1) - 1
MinInt == 0 - 2^(IntBits - 1)
Wrap(x) == ((x - MinInt) % 2^IntBits) + MinInt

Procs == 1..NProcs

Execs == 1..NExecs

Workers == 1..NWorkers

VARIABLES
    \* semaphore.go
    capacity,   \* cap(s.sem)
    sem,        \* the buffer of s.sem, oldest first; len(s.sem) = Len(sem)
    freed,      \* the free slots of s.sem, in the order sends will use them
    closed,     \* s.closed
    pc,         \* pc[p]: "idle", or "select" while p is inside Obtain's select
    ctx,        \* ctx[p]: the context of p's Obtain call in progress
    fired,      \* fired[p]: ctx.Done() of that call is closed
    view,       \* view[p]: a write of s.closed = true happens before p's next step
    late,       \* late[p]: a Close call had completed when p's call began
    last,       \* the last call that returned, with its result
    balance,    \* Obtain calls that returned true less Release calls that did
    \* utils.go: the SafeClient and one call of RequestWithRetry or DoRequest
    TimeoutOnly, \* SafeClient.TimeoutOnly
    BaseSleep,  \* SafeClient.Backoff.BaseSleep
    MaxSleep,   \* SafeClient.Backoff.MaxSleep
    fn,         \* the method called: "RequestWithRetry" or "DoRequest"
    maxTries,   \* its argument maxTries
    urlOk,      \* DoRequest: http.NewRequest accepts method and url
    xpc,        \* where the call is: "idle", "loop", "send", "sleep", "done", "panic"
    tries,      \* named result tries
    status,     \* named result status
    body,       \* named result body
    err,        \* named result err
    wait,       \* local wait
    exit,       \* the return statement taken, "" while the call runs
    outcomes,   \* what RequestWithClose returned, one entry per request sent
    nslept,     \* number of time.Sleep calls made
    lastSleep,  \* duration in ms of the latest time.Sleep
    unclosed,   \* response bodies received and not closed
    content,    \* the content the request is made of: DoRequest's argument
    hook,       \* DoRequest's argument f is not nil
    req,        \* the *http.Request the loop holds
    sent,       \* that request as the latest c.Do received it
    \* utils.go: one application of Backoff.Next or of ShouldRetry
    fpc,        \* the function applied: "idle", "Next", "ShouldRetry", "panic"
    arg,        \* its argument
    ret,        \* the int Backoff.Next returned
    retry,      \* the bool ShouldRetry returned
    \* utils.go: concurrent calls of RequestWithRetry on one SafeClient
    calls,      \* calls[e]: the named results and locals of call e
    \* semaphore.go: NWorkers goroutines in Obtain on a semaphore of fewer
    \* slots, and the goroutine that started them and then calls Release
    sync,       \* the semaphore, the workers and the main goroutine
    \* utils.go: RequestWithRetry and DoRequest called with the same maxTries
    \* and fed the same transport outcomes and the same random draws
    feed,       \* maxTries, and the outcomes and draws handed out so far
    both        \* both[f]: the named results and locals of the call of f

semVars == <<capacity, sem, freed, closed, pc, ctx, fired, view, late, last,
             balance>>

cfgVars == <<TimeoutOnly, BaseSleep, MaxSleep>>

callVars == <<fn, maxTries, urlOk, xpc, tries, status, body, err, wait, exit,
              outcomes, nslept, lastSleep, unclosed>>

reqVars == <<content, hook, req, sent>>

execVars == <<cfgVars, callVars, reqVars>>

fnVars == <<fpc, arg, ret, retry>>

pairVars == <<feed, both>>

vars == <<semVars, execVars, fnVars, calls, sync, pairVars>>

(* ------------------------- semaphore.go -------------------------------- *)

\* len(s.sem)
Len_sem == Len(sem)

\* no call has returned yet
NoCall == [op |-> "none", ret |-> FALSE, val |-> 0, pre |-> 0, post |-> 0,
           how |-> "", late |-> FALSE, fired |-> FALSE]

\* The record of a call of op o that returns r (a bool) or v (an int):
\* len(s.sem) before and after its last step, the statement h it returned
\* from, whether a Close had completed when it began (l) and whether its
\* context was done when it returned (f).
Returned(o, r, v, h, l, f) ==
    [op |-> o, ret |-> r, val |-> v, pre |-> Len(sem), post |-> Len(sem'),
     how |-> h, late |-> l, fired |-> f]

\* NewSemaphore(n): make(chan struct{}, n), closed: false
NewSemaphore(n) ==
    /\ capacity = n
    /\ sem = <<>>
    /\ freed = [i \in 1..n |-> FALSE]
    /\ closed = FALSE

\* The values a read of s.closed by goroutine p may observe. The field is
\* read and written without synchronisation: a read that no write of true
\* happens before may still observe the initial false.
ReadClosed(p) ==
    IF view[p] THEN {TRUE}
    ELSE IF closed THEN {TRUE, FALSE}
    ELSE {FALSE}

\* p's Obtain call returns: its context and its start are forgotten
CallOver(p) ==
    /\ ctx' = [ctx EXCEPT ![p] = "background"]
    /\ fired' = [fired EXCEPT ![p] = FALSE]
    /\ late' = [late EXCEPT ![p] = FALSE]

\* Obtain, up to the select: the check of s.closed and ctx.Done().
\* c is the caller's context, f tells whether it is already done.
ObtainCall(p) ==
    /\ pc[p] = "idle"
    /\ \E c \in {"background", "cancel"}, f \in BOOLEAN, r \in ReadClosed(p) :
        /\ (c = "background") => ~f
        /\ UNCHANGED <<capacity, sem, freed, closed, view>>
        /\ IF r
             THEN /\ last' = Returned("Obtain", FALSE, 0, "closed", closed, f)
                  /\ UNCHANGED <<pc, ctx, fired, late>>
             ELSE /\ pc' = [pc EXCEPT ![p] = "select"]
                  /\ ctx' = [ctx EXCEPT ![p] = c]
                  /\ fired' = [fired EXCEPT ![p] = f]
                  /\ late' = [late EXCEPT ![p] = closed]
                  /\ UNCHANGED last
    /\ UNCHANGED balance
    /\ UNCHANGED <<execVars, fnVars, calls, sync, pairVars>>

\* ObtainSend as a send that does not wait for room in the buffer
ObtainSendNoRoomCheck(p) ==
    /\ pc[p] = "select"
    /\ sem' = Append(sem, view[p])
    /\ freed' = IF freed = <<>> THEN freed ELSE Tail(freed)
    /\ view' = [view EXCEPT ![p] = view[p] \/ (freed # <<>> /\ Head(freed))]
    /\ pc' = [pc EXCEPT ![p] = "idle"]
    /\ last' = Returned("Obtain", TRUE, 0, "sent", late[p], fired[p])
    /\ CallOver(p)
    /\ UNCHANGED <<capacity, closed>>
    /\ balance' = balance + 1
    /\ UNCHANGED <<execVars, fnVars, calls, sync, pairVars>>

\* case s.sem <- struct{}{}: return true
ObtainSend(p) ==
    /\ pc[p] = "select"
    /\ Len_sem < capacity
    /\ sem' = Append(sem, view[p])
    /\ freed' = Tail(freed)
    /\ view' = [view EXCEPT ![p] = view[p] \/ Head(freed)]
    /\ pc' = [pc EXCEPT ![p] = "idle"]
    /\ last' = Returned("Obtain", TRUE, 0, "sent", late[p], fired[p])
    /\ CallOver(p)
    /\ UNCHANGED <<capacity, closed>>
    /\ balance' = balance + 1
    /\ UNCHANGED <<execVars, fnVars, calls, sync, pairVars>>

\* ObtainDone as a cancellation that returns false and yet takes a slot
ObtainDoneTakesSlot(p) ==
    /\ pc[p] = "select"
    /\ fired[p]
    /\ pc' = [pc EXCEPT ![p] = "idle"]
    /\ IF Len_sem < capacity
         THEN /\ sem' = Append(sem, view[p])
              /\ freed' = Tail(freed)
         ELSE UNCHANGED <<sem, freed>>
    /\ UNCHANGED <<capacity, closed, view>>
    /\ last' = Returned("Obtain", FALSE, 0, "cancelled", late[p], fired[p])
    /\ CallOver(p)
    /\ UNCHANGED balance
    /\ UNCHANGED <<execVars, fnVars, calls, sync, pairVars>>

\* ObtainDone as a cancellation that is noticed only once a slot is free
ObtainDoneMissed(p) ==
    /\ pc[p] = "select"
    /\ fired[p]
    /\ Len_sem < capacity
    /\ pc' = [pc EXCEPT ![p] = "idle"]
    /\ UNCHANGED <<capacity, sem, freed, closed, view>>
    /\ last' = Returned("Obtain", FALSE, 0, "cancelled", late[p], fired[p])
    /\ CallOver(p)
    /\ UNCHANGED balance
    /\ UNCHANGED <<execVars, fnVars, calls, sync, pairVars>>

\* case <-done: return false
ObtainDone(p) ==
    /\ pc[p] = "select"
    /\ fired[p]
    /\ pc' = [pc EXCEPT ![p] = "idle"]
    /\ UNCHANGED <<capacity, sem, freed, closed, view>>
    /\ last' = Returned("Obtain", FALSE, 0, "cancelled", late[p], fired[p])
    /\ CallOver(p)
    /\ UNCHANGED balance
    /\ UNCHANGED <<execVars, fnVars, calls, sync, pairVars>>

\* Cancel as a cancellation that reaches every waiting caller's context
CancelFiresAll(p) ==
    /\ pc[p] = "select"
    /\ ctx[p] = "cancel"
    /\ ~fired[p]
    /\ fired' = [q \in Procs |-> fired[q] \/ pc[q] = "select"]
    /\ UNCHANGED <<capacity, sem, freed, closed, pc, ctx, view, late, last>>
    /\ UNCHANGED balance
    /\ UNCHANGED <<execVars, fnVars, calls, sync, pairVars>>

\* the context of p's Obtain call is cancelled or reaches its deadline
Cancel(p) ==
    /\ pc[p] = "select"
    /\ ctx[p] = "cancel"
    /\ ~fired[p]
    /\ fired' = [fired EXCEPT ![p] = TRUE]
    /\ UNCHANGED <<capacity, sem, freed, closed, pc, ctx, view, late, last>>
    /\ UNCHANGED balance
    /\ UNCHANGED <<execVars, fnVars, calls, sync, pairVars>>

\* Release as a receive whose default case also returns true
ReleaseAlwaysTrue(p) ==
    /\ pc[p] = "idle"
    /\ IF Len_sem > 0
         THEN /\ sem' = Tail(sem)
              /\ view' = [view EXCEPT ![p] = view[p] \/ Head(sem)]
              /\ freed' = Append(freed, view[p] \/ Head(sem))
              /\ last' = Returned("Release", TRUE, 0, "received", FALSE, FALSE)
         ELSE /\ UNCHANGED <<sem, freed, view>>
              /\ last' = Returned("Release", TRUE, 0, "default", FALSE, FALSE)
    /\ UNCHANGED <<capacity, closed, pc, ctx, fired, late>>
    /\ balance' = balance - 1
    /\ UNCHANGED <<execVars, fnVars, calls, sync, pairVars>>

\* Release as a receive that reports false
ReleaseReportsFalse(p) ==
    /\ pc[p] = "idle"
    /\ IF Len_sem > 0
         THEN /\ sem' = Tail(sem)
              /\ view' = [view EXCEPT ![p] = view[p] \/ Head(sem)]
              /\ freed' = Append(freed, view[p] \/ Head(sem))
         ELSE UNCHANGED <<sem, freed, view>>
    /\ last' = Returned("Release", FALSE, 0, "default", FALSE, FALSE)
    /\ UNCHANGED balance
    /\ UNCHANGED <<capacity, closed, pc, ctx, fired, late>>
    /\ UNCHANGED <<execVars, fnVars, calls, sync, pairVars>>

\* Release: select { case <-s.sem: return true; default: return false }
Release(p) ==
    /\ pc[p] = "idle"
    /\ IF Len_sem > 0
         THEN /\ sem' = Tail(sem)
              /\ view' = [view EXCEPT ![p] = view[p] \/ Head(sem)]
              /\ freed' = Append(freed, view[p] \/ Head(sem))
              /\ last' = Returned("Release", TRUE, 0, "received", FALSE, FALSE)
              /\ balance' = balance - 1
         ELSE /\ UNCHANGED <<sem, freed, view>>
              /\ last' = Returned("Release", FALSE, 0, "default", FALSE, FALSE)
              /\ UNCHANGED balance
    /\ UNCHANGED <<capacity, closed, pc, ctx, fired, late>>
    /\ UNCHANGED <<execVars, fnVars, calls, sync, pairVars>>

\* Capacity as the number of slots in use
CapacityReturnsLen(p) ==
    /\ pc[p] = "idle"
    /\ UNCHANGED <<capacity, sem, freed, closed, pc, ctx, fired, view, late>>
    /\ last' = Returned("Capacity", FALSE, Len_sem, "", FALSE, FALSE)
    /\ UNCHANGED balance
    /\ UNCHANGED <<execVars, fnVars, calls, sync, pairVars>>

\* Capacity: cap(s.sem)
Capacity(p) ==
    /\ pc[p] = "idle"
    /\ UNCHANGED <<capacity, sem, freed, closed, pc, ctx, fired, view, late>>
    /\ last' = Returned("Capacity", FALSE, capacity, "", FALSE, FALSE)
    /\ UNCHANGED balance
    /\ UNCHANGED <<execVars, fnVars, calls, sync, pairVars>>

\* Count: len(s.sem)
Count(p) ==
    /\ pc[p] = "idle"
    /\ UNCHANGED <<capacity, sem, freed, closed, pc, ctx, fired, view, late>>
    /\ last' = Returned("Count", FALSE, Len_sem, "", FALSE, FALSE)
    /\ UNCHANGED balance
    /\ UNCHANGED <<execVars, fnVars, calls, sync, pairVars>>

\* Close as a close that also empties the channel
CloseEvictsSlots(p) ==
    /\ pc[p] = "idle"
    /\ closed' = TRUE
    /\ view' = [view EXCEPT ![p] = TRUE]
    /\ sem' = <<>>
    /\ freed' = freed \o [i \in 1..Len(sem) |-> TRUE]
    /\ UNCHANGED <<capacity, pc, ctx, fired, late>>
    /\ last' = Returned("Close", FALSE, 0, "", closed, FALSE)
    /\ UNCHANGED balance
    /\ UNCHANGED <<execVars, fnVars, calls, sync, pairVars>>

\* Close as a close that makes every waiting Obtain return
CloseWakesWaiters(p) ==
    /\ pc[p] = "idle"
    /\ closed' = TRUE
    /\ view' = [view EXCEPT ![p] = TRUE]
    /\ pc' = [q \in Procs |-> "idle"]
    /\ UNCHANGED <<capacity, sem, freed, ctx, fired, late>>
    /\ last' = Returned("Close", FALSE, 0, "", closed, FALSE)
    /\ UNCHANGED balance
    /\ UNCHANGED <<execVars, fnVars, calls, sync, pairVars>>

\* Close: s.closed = true
Close(p) ==
    /\ pc[p] = "idle"
    /\ closed' = TRUE
    /\ view' = [view EXCEPT ![p] = TRUE]
    /\ UNCHANGED <<capacity, sem, freed, pc, ctx, fired, late>>
    /\ last' = Returned("Close", FALSE, 0, "", closed, FALSE)
    /\ UNCHANGED balance
    /\ UNCHANGED <<execVars, fnVars, calls, sync, pairVars>>

\* Closed: return s.closed
Closed(p) ==
    /\ pc[p] = "idle"
    /\ UNCHANGED <<capacity, sem, freed, closed, pc, ctx, fired, view, late>>
    /\ \E r \in ReadClosed(p) :
        last' = Returned("Closed", r, 0, "", closed, FALSE)
    /\ UNCHANGED balance
    /\ UNCHANGED <<execVars, fnVars, calls, sync, pairVars>>

\* The goroutines of a run in which NWorkers workers call Obtain with a
\* background context on a semaphore of n < NWorkers slots, and the main
\* goroutine, once the semaphore is full and the other workers are blocked,
\* calls Release NWorkers - n times in a row. sync holds
\*   n        cap(s.sem)
\*   len      len(s.sem)
\*   w        where each worker is: "go", "select", "parked" (blocked in
\*            the select, queued as a sender on s.sem), "woken" (its send
\*            has been completed by a receiver), "true" (Obtain returned
\*            true), "done"
\*   main     where the main goroutine is
\*   released what its Release calls returned, in order
\*   counted  what its Count calls returned, in order
NoSync ==
    sync = [n |-> 0, len |-> 0, w |-> [i \in Workers |-> "idle"],
            main |-> "idle", released |-> <<>>, counted |-> <<>>]

\* sema := NewSemaphore(n); m workers started with go func() {...}()
NewSync(k) ==
    sync = [n |-> k, len |-> 0, w |-> [i \in Workers |-> "go"],
            main |-> "sleep", released |-> <<>>, counted |-> <<>>]

\* the workers blocked in Obtain
Parked == {i \in Workers : sync.w[i] = "parked"}

\* worker i calls sema.Obtain(ctx): s.closed is false, done is the nil
\* channel of the background context; on to the select
SyncObtain(i) ==
    /\ sync.w[i] = "go"
    /\ sync' = [sync EXCEPT !.w[i] = "select"]
    /\ UNCHANGED <<semVars, execVars, fnVars, calls, pairVars>>

\* the select of worker i: with room in the buffer the send goes through
\* and Obtain returns true, with the buffer full the goroutine parks as a
\* sender on s.sem
SyncSelect(i) ==
    /\ sync.w[i] = "select"
    /\ IF sync.len < sync.n
         THEN sync' = [sync EXCEPT !.w[i] = "true", !.len = sync.len + 1]
         ELSE sync' = [sync EXCEPT !.w[i] = "parked"]
    /\ UNCHANGED <<semVars, execVars, fnVars, calls, pairVars>>

\* worker i runs again after a receiver completed its send: the select
\* took the send case, Obtain returns true
SyncWake(i) ==
    /\ sync.w[i] = "woken"
    /\ sync' = [sync EXCEPT !.w[i] = "true"]
    /\ UNCHANGED <<semVars, execVars, fnVars, calls, pairVars>>

\* wg.Done() of worker i
SyncDone(i) ==
    /\ sync.w[i] = "true"
    /\ sync' = [sync EXCEPT !.w[i] = "done"]
    /\ UNCHANGED <<semVars, execVars, fnVars, calls, pairVars>>

\* the main goroutine's time.Sleep ends, with the semaphore full and every
\* other worker blocked in Obtain
SyncAwake ==
    /\ sync.main = "sleep"
    /\ sync.len = sync.n
    /\ Cardinality(Parked) = NWorkers - sync.n
    /\ sync' = [sync EXCEPT !.main = "count"]
    /\ UNCHANGED <<semVars, execVars, fnVars, calls, pairVars>>

\* sema.Count() by the main goroutine, before and after the Releases
SyncCount ==
    /\ sync.main \in {"count", "recount"}
    /\ sync' = [sync EXCEPT !.counted = Append(sync.counted, sync.len),
                            !.main = IF sync.main = "count"
                                       THEN "release" ELSE "over"]
    /\ UNCHANGED <<semVars, execVars, fnVars, calls, pairVars>>

\* SyncRelease as a receive that leaves a blocked sender to send by itself
SyncReleaseWithoutHandoff ==
    /\ sync.main = "release"
    /\ Len(sync.released) < NWorkers - sync.n
    /\ IF sync.len > 0
         THEN sync' = [sync EXCEPT !.len = sync.len - 1,
                                   !.w = [i \in Workers |->
                                            IF sync.w[i] = "parked"
                                              THEN "select" ELSE sync.w[i]],
                                   !.released = Append(sync.released, TRUE)]
         ELSE sync' = [sync EXCEPT !.released = Append(sync.released, FALSE)]
    /\ UNCHANGED <<semVars, execVars, fnVars, calls, pairVars>>

\* sema.Release() in the main goroutine's loop. A receive from a full
\* buffer with a sender blocked on the channel takes the head of the buffer
\* and completes that sender's send in the same step, so the buffer stays
\* full; with no sender blocked it takes one element; with the buffer empty
\* the default case returns false.
SyncRelease ==
    /\ sync.main = "release"
    /\ Len(sync.released) < NWorkers - sync.n
    /\ IF sync.len > 0
         THEN IF sync.len = sync.n /\ Parked # {}
                THEN \E i \in Parked :
                       sync' = [sync EXCEPT !.w[i] = "woken",
                                            !.released = Append(sync.released, TRUE)]
                ELSE sync' = [sync EXCEPT !.len = sync.len - 1,
                                          !.released = Append(sync.released, TRUE)]
         ELSE sync' = [sync EXCEPT !.released = Append(sync.released, FALSE)]
    /\ UNCHANGED <<semVars, execVars, fnVars, calls, pairVars>>

\* wg.Wait() returns after the loop of Releases: every worker has called
\* wg.Done()
SyncWait ==
    /\ sync.main = "release"
    /\ Len(sync.released) = NWorkers - sync.n
    /\ \A i \in Workers : sync.w[i] = "done"
    /\ sync' = [sync EXCEPT !.main = "recount"]
    /\ UNCHANGED <<semVars, execVars, fnVars, calls, pairVars>>

(* --------------------------- utils.go ---------------------------------- *)

\* a nil []byte
Nil == "<nil>"

\* Errors, by what IsTimeoutErr looks at: whether the value implements
\* net.Error, and what its Timeout() method answers.
NilErr == [name |-> "nil", net |-> FALSE, timeout |-> FALSE]
ErrTimeout == [name |-> "timeout", net |-> TRUE, timeout |-> TRUE]
ErrRefused == [name |-> "refused", net |-> TRUE, timeout |-> FALSE]
ErrReset == [name |-> "reset", net |-> TRUE, timeout |-> FALSE]
ErrNewRequest == [name |-> "newrequest", net |-> FALSE, timeout |-> FALSE]

\* What the transport does with one request: c.Do fails with doErr, or it
\* returns a response with status code and a body holding content, of which
\* ioutil.ReadAll reads partial before failing with readErr (or reads it all).
Resp(s, c) ==
    [doErr |-> NilErr, code |-> s, content |-> c, partial |-> c, readErr |-> NilErr]

Fail(e) ==
    [doErr |-> e, code |-> 0, content |-> Nil, partial |-> Nil, readErr |-> NilErr]

Cut(s, c, part, e) ==
    [doErr |-> NilErr, code |-> s, content |-> c, partial |-> part, readErr |-> e]

Transports ==
    { Resp(200, "OK"), Resp(403, "Forbidden"), Resp(408, "Request Timeout"),
      Resp(500, "Internal Server Error"),
      Fail(ErrTimeout), Fail(ErrRefused),
      Cut(500, "Internal Server Error", "Int", ErrReset),
      Cut(200, "OK", "O", ErrTimeout) }

\* the error of c.Do for a request whose body holds fewer bytes than its
\* ContentLength
ErrBodyLength == [name |-> "bodylength", net |-> TRUE, timeout |-> FALSE]

\* a request body that has been read to its end
Drained == ""

\* the content a caller makes a request of: none, or []byte("foo")
Contents == {Nil, "foo"}

\* var req *http.Request
NilReq == [body |-> Nil, hooked |-> FALSE, fresh |-> FALSE]

\* http.NewRequest(method, url, bytes.NewBuffer(c)), or with a nil body
\* when len(c) = 0, then f(req) when f is not nil (h)
NewRequest(c, h) == [body |-> c, hooked |-> h, fresh |-> TRUE]

\* What the transport may do with request r: a request whose body was read
\* by an earlier send cannot be written out again, c.Do returns an error.
Sendable(r) ==
    IF r.body = Drained
      THEN {Fail(ErrBodyLength), Fail(ErrTimeout), Fail(ErrRefused)}
      ELSE Transports

\* The request after c.Do(r) ended as t: the body has been read when a
\* response came back, is untouched when no connection was made, and may
\* be either when the send failed otherwise.
AfterSend(r, t) ==
    LET bodies == IF r.body = Nil THEN {Nil}
                  ELSE IF t.doErr = NilErr THEN {Drained}
                  ELSE IF t.doErr = ErrRefused THEN {r.body}
                  ELSE {r.body, Drained}
    IN  { [body |-> b, hooked |-> r.hooked, fresh |-> FALSE] : b \in bodies }

\* ShouldRetry as a test that leaves out 501, 505 and 511
ShouldRetryExcluding501(statusCode) ==
    /\ statusCode = 408 \/ (statusCode >= 500 /\ statusCode <= 599)
    /\ statusCode \notin {501, 505, 511}

\* ShouldRetry as a test that takes every 4xx and 5xx status
ShouldRetryAll4xx(statusCode) ==
    statusCode >= 400 /\ statusCode <= 599

\* ShouldRetry: http 408 and 5xx
ShouldRetry(statusCode) ==
    statusCode = 408 \/ (statusCode >= 500 /\ statusCode <= 599)

\* IsTimeoutErr: cast to net.Error, then Timeout()
IsTimeoutErr(e) ==
    IF e.net THEN e.timeout ELSE FALSE

\* Backoff.Next: the argument handed to rand.Intn
IntnArg(previous) ==
    Wrap(Wrap((IF previous <= BaseSleep THEN BaseSleep ELSE previous) * 3)
         - BaseSleep)

\* Backoff.Next: the values it may return, one per value rand.Intn may draw
Next(previous) ==
    { LET sleep == Wrap(r + BaseSleep)
      IN  IF sleep > MaxSleep THEN MaxSleep ELSE sleep :
        r \in 0..(IntnArg(previous) - 1) }

\* RequestWithClose: status, body and err for one request
RequestWithClose(t) ==
    IF t.doErr # NilErr
      THEN [status |-> 0, body |-> Nil, err |-> t.doErr]
      ELSE IF t.readErr # NilErr
             THEN [status |-> t.code, body |-> t.partial, err |-> t.readErr]
             ELSE [status |-> t.code, body |-> t.content, err |-> NilErr]

\* RequestWithClose: whether resp.Body.Close() is deferred. The test
\* resp != nil runs before c.Do assigns resp.
ClosesBody(t) == FALSE

\* Retries as a decision that retries after every error
RetriesAnyError(o) ==
    IF o.err # NilErr
      THEN TRUE
      ELSE ShouldRetry(o.status)

\* Retries as a decision that reads TimeoutOnly the wrong way round
RetriesFlagInverted(o) ==
    IF o.err # NilErr
      THEN TimeoutOnly \/ IsTimeoutErr(o.err)
      ELSE ShouldRetry(o.status)

\* the loop's decision after one request: sleep and continue, or return
Retries(o) ==
    IF o.err # NilErr
      THEN ~TimeoutOnly \/ IsTimeoutErr(o.err)
      ELSE ShouldRetry(o.status)

\* StdClient: SafeClient{true, http.Client{Timeout: 5s}, Backoff{100, 5000}}
StdClient ==
    /\ TimeoutOnly = TRUE
    /\ BaseSleep = 100
    /\ MaxSleep = 5000

\* no call of the client in progress
NoRequest ==
    /\ fn = ""
    /\ maxTries = 0
    /\ urlOk = TRUE
    /\ xpc = "idle"
    /\ tries = 0
    /\ status = 0
    /\ body = Nil
    /\ err = NilErr
    /\ wait = 0
    /\ exit = ""
    /\ outcomes = <<>>
    /\ nslept = 0
    /\ lastSleep = 0
    /\ unclosed = 0
    /\ content = Nil
    /\ hook = FALSE
    /\ req = NilReq
    /\ sent = NilReq

\* neither Backoff.Next nor ShouldRetry has been applied
NoApply ==
    /\ fpc = "idle"
    /\ arg = 0
    /\ ret = 0
    /\ retry = FALSE

\* b.Next(previous) for some previous >= 0: it returns one of the values
\* the draw allows, or rand.Intn panics
ApplyNext ==
    /\ \E previous \in 0..MaxInt :
        /\ arg' = previous
        /\ IF IntnArg(previous) <= 0
             THEN /\ fpc' = "panic"
                  /\ UNCHANGED ret
             ELSE /\ fpc' = "Next"
                  /\ \E v \in Next(previous) : ret' = v
    /\ UNCHANGED retry
    /\ UNCHANGED <<cfgVars, callVars, reqVars, semVars, calls, sync, pairVars>>

\* the status codes ShouldRetry is applied to
Statuses == (0 - 1)..MaxStatus

\* ShouldRetry(statusCode) for some status code
ApplyShouldRetry ==
    /\ \E statusCode \in Statuses :
        /\ arg' = statusCode
        /\ retry' = ShouldRetry(statusCode)
    /\ fpc' = "ShouldRetry"
    /\ UNCHANGED ret
    /\ UNCHANGED <<cfgVars, callVars, reqVars, semVars, calls, sync, pairVars>>

\* RequestWithRetry(req, m) or DoRequest(method, url, content, m, f) is
\* called; the named results start at their zero values, wait at 0.
Call ==
    /\ xpc = "idle"
    /\ \E f \in {"RequestWithRetry", "DoRequest"}, m \in MinTries..MaxTries,
          ok \in BOOLEAN, c \in Contents, h \in BOOLEAN :
        /\ (f = "RequestWithRetry") => (ok /\ ~h)
        /\ fn' = f
        /\ maxTries' = m
        /\ urlOk' = ok
        /\ content' = c
        /\ hook' = h
        /\ req' = IF f = "RequestWithRetry" THEN NewRequest(c, FALSE) ELSE NilReq
    /\ xpc' = "loop"
    /\ UNCHANGED <<tries, status, body, err, wait, exit, outcomes, nslept,
                   lastSleep, unclosed, sent>>
    /\ UNCHANGED <<cfgVars, semVars, fnVars, calls, sync, pairVars>>

\* LoopExit as an exit that leaves out tries--
LoopExitNoDecrement ==
    /\ xpc = "loop"
    /\ ~(tries < maxTries)
    /\ exit' = "exhausted"
    /\ xpc' = "done"
    /\ UNCHANGED <<fn, maxTries, urlOk, tries, status, body, err, wait,
                   outcomes, nslept, lastSleep, unclosed>>
    /\ UNCHANGED <<cfgVars, semVars, fnVars, calls, reqVars, sync, pairVars>>

\* the loop is left with tries = maxTries: tries--, return
LoopExit ==
    /\ xpc = "loop"
    /\ ~(tries < maxTries)
    /\ tries' = tries - 1
    /\ exit' = "exhausted"
    /\ xpc' = "done"
    /\ UNCHANGED <<fn, maxTries, urlOk, status, body, err, wait, outcomes,
                   nslept, lastSleep, unclosed>>
    /\ UNCHANGED <<cfgVars, semVars, fnVars, calls, reqVars, sync, pairVars>>

\* NewRequestFails as a request built before the loop is entered
NewRequestFailsBeforeLoop ==
    /\ xpc = "loop"
    /\ tries = 0
    /\ fn = "DoRequest"
    /\ ~urlOk
    /\ err' = ErrNewRequest
    /\ exit' = "newrequest"
    /\ xpc' = "done"
    /\ UNCHANGED <<fn, maxTries, urlOk, tries, status, body, wait, outcomes,
                   nslept, lastSleep, unclosed>>
    /\ UNCHANGED <<cfgVars, semVars, fnVars, calls, reqVars, sync, pairVars>>

\* DoRequest: http.NewRequest fails, return
NewRequestFails ==
    /\ xpc = "loop"
    /\ tries < maxTries
    /\ fn = "DoRequest"
    /\ ~urlOk
    /\ err' = ErrNewRequest
    /\ exit' = "newrequest"
    /\ xpc' = "done"
    /\ UNCHANGED <<fn, maxTries, urlOk, tries, status, body, wait, outcomes,
                   nslept, lastSleep, unclosed>>
    /\ UNCHANGED <<cfgVars, semVars, fnVars, calls, reqVars, sync, pairVars>>

\* NextWait as a step that builds a new request in RequestWithRetry too
NextWaitRebuildsRequest ==
    /\ xpc = "loop"
    /\ tries < maxTries
    /\ (fn = "DoRequest") => urlOk
    /\ IF IntnArg(wait) <= 0
         THEN /\ xpc' = "panic"
              /\ UNCHANGED wait
         ELSE /\ \E w \in Next(wait) : wait' = w
              /\ xpc' = "send"
    /\ UNCHANGED <<fn, maxTries, urlOk, tries, status, body, err, exit,
                   outcomes, nslept, lastSleep, unclosed>>
    /\ req' = NewRequest(content, hook)
    /\ UNCHANGED <<content, hook, sent>>
    /\ UNCHANGED <<cfgVars, semVars, fnVars, calls, sync, pairVars>>

\* NextWait as a step that builds the request in the first round only
NextWaitReusesRequest ==
    /\ xpc = "loop"
    /\ tries < maxTries
    /\ (fn = "DoRequest") => urlOk
    /\ IF IntnArg(wait) <= 0
         THEN /\ xpc' = "panic"
              /\ UNCHANGED wait
         ELSE /\ \E w \in Next(wait) : wait' = w
              /\ xpc' = "send"
    /\ UNCHANGED <<fn, maxTries, urlOk, tries, status, body, err, exit,
                   outcomes, nslept, lastSleep, unclosed>>
    /\ req' = IF fn = "DoRequest" /\ tries = 0
                THEN NewRequest(content, hook) ELSE req
    /\ UNCHANGED <<content, hook, sent>>
    /\ UNCHANGED <<cfgVars, semVars, fnVars, calls, sync, pairVars>>

\* NextWait under a loop condition tries <= maxTries
NextWaitOffByOne ==
    /\ xpc = "loop"
    /\ tries <= maxTries
    /\ (fn = "DoRequest") => urlOk
    /\ \E w \in Next(wait) : wait' = w
    /\ xpc' = "send"
    /\ UNCHANGED <<fn, maxTries, urlOk, tries, status, body, err, exit,
                   outcomes, nslept, lastSleep, unclosed>>
    /\ req' = IF fn = "DoRequest" THEN NewRequest(content, hook) ELSE req
    /\ UNCHANGED <<content, hook, sent>>
    /\ UNCHANGED <<cfgVars, semVars, fnVars, calls, sync, pairVars>>

\* wait = c.Next(wait), in DoRequest after the request of this round is
\* built (http.NewRequest, then the hook); rand.Intn panics when its
\* argument is <= 0
NextWait ==
    /\ xpc = "loop"
    /\ tries < maxTries
    /\ (fn = "DoRequest") => urlOk
    /\ IF IntnArg(wait) <= 0
         THEN /\ xpc' = "panic"
              /\ UNCHANGED wait
         ELSE /\ \E w \in Next(wait) : wait' = w
              /\ xpc' = "send"
    /\ UNCHANGED <<fn, maxTries, urlOk, tries, status, body, err, exit,
                   outcomes, nslept, lastSleep, unclosed>>
    /\ req' = IF fn = "DoRequest" THEN NewRequest(content, hook) ELSE req
    /\ UNCHANGED <<content, hook, sent>>
    /\ UNCHANGED <<cfgVars, semVars, fnVars, calls, sync, pairVars>>

\* Send as a step that also counts the attempt in tries
SendCountsAttempt ==
    /\ xpc = "send"
    /\ \E t \in Sendable(req) :
        LET o == RequestWithClose(t) IN
        /\ sent' = req
        /\ \E r \in AfterSend(req, t) : req' = r
        /\ status' = o.status
        /\ body' = o.body
        /\ err' = o.err
        /\ outcomes' = Append(outcomes, o)
        /\ unclosed' = IF t.doErr = NilErr /\ ~ClosesBody(t)
                         THEN unclosed + 1 ELSE unclosed
        /\ IF Retries(o)
             THEN /\ xpc' = "sleep"
                  /\ UNCHANGED exit
             ELSE /\ xpc' = "done"
                  /\ exit' = IF o.err # NilErr THEN "fatal" ELSE "status"
    /\ tries' = tries + 1
    /\ UNCHANGED <<fn, maxTries, urlOk, wait, nslept, lastSleep,
                   content, hook>>
    /\ UNCHANGED <<cfgVars, semVars, fnVars, calls, sync, pairVars>>

\* Send as a step that keeps the status and body of the latest response
\* when c.Do fails
SendKeepsLastResponse ==
    /\ xpc = "send"
    /\ \E t \in Sendable(req) :
        LET o == RequestWithClose(t) IN
        /\ sent' = req
        /\ \E r \in AfterSend(req, t) : req' = r
        /\ status' = IF t.doErr # NilErr THEN status ELSE o.status
        /\ body' = IF t.doErr # NilErr THEN body ELSE o.body
        /\ err' = o.err
        /\ outcomes' = Append(outcomes, o)
        /\ unclosed' = IF t.doErr = NilErr /\ ~ClosesBody(t)
                         THEN unclosed + 1 ELSE unclosed
        /\ IF Retries(o)
             THEN /\ xpc' = "sleep"
                  /\ UNCHANGED exit
             ELSE /\ xpc' = "done"
                  /\ exit' = IF o.err # NilErr THEN "fatal" ELSE "status"
    /\ UNCHANGED <<fn, maxTries, urlOk, tries, wait, nslept, lastSleep,
                   content, hook>>
    /\ UNCHANGED <<cfgVars, semVars, fnVars, calls, sync, pairVars>>

\* status, body, err = c.RequestWithClose(req), then the checks of err
\* and status: on to the sleep, or return
Send ==
    /\ xpc = "send"
    /\ \E t \in Sendable(req) :
        LET o == RequestWithClose(t) IN
        /\ sent' = req
        /\ \E r \in AfterSend(req, t) : req' = r
        /\ status' = o.status
        /\ body' = o.body
        /\ err' = o.err
        /\ outcomes' = Append(outcomes, o)
        /\ unclosed' = IF t.doErr = NilErr /\ ~ClosesBody(t)
                         THEN unclosed + 1 ELSE unclosed
        /\ IF Retries(o)
             THEN /\ xpc' = "sleep"
                  /\ UNCHANGED exit
             ELSE /\ xpc' = "done"
                  /\ exit' = IF o.err # NilErr THEN "fatal" ELSE "status"
    /\ UNCHANGED <<fn, maxTries, urlOk, tries, wait, nslept, lastSleep,
                   content, hook>>
    /\ UNCHANGED <<cfgVars, semVars, fnVars, calls, sync, pairVars>>

\* Sleep as a continue that does not reach the loop's tries++
SleepWithoutCount ==
    /\ xpc = "sleep"
    /\ nslept' = nslept + 1
    /\ lastSleep' = wait
    /\ xpc' = "loop"
    /\ UNCHANGED <<fn, maxTries, urlOk, tries, status, body, err, wait, exit,
                   outcomes, unclosed>>
    /\ UNCHANGED <<cfgVars, semVars, fnVars, calls, reqVars, sync, pairVars>>

\* time.Sleep(wait ms); continue, with the loop's tries++
Sleep ==
    /\ xpc = "sleep"
    /\ nslept' = nslept + 1
    /\ lastSleep' = wait
    /\ tries' = tries + 1
    /\ xpc' = "loop"
    /\ UNCHANGED <<fn, maxTries, urlOk, status, body, err, wait, exit,
                   outcomes, unclosed>>
    /\ UNCHANGED <<cfgVars, semVars, fnVars, calls, reqVars, sync, pairVars>>

\* What the transport does with the body-less requests of the concurrent
\* calls.
GoTransports ==
    { Resp(200, "OK"), Resp(500, "Internal Server Error"), Fail(ErrTimeout) }

\* a call not made yet: named results and wait at their zero values
NoExec ==
    [pc |-> "idle", maxTries |-> 0, tries |-> 0, status |-> 0, body |-> Nil,
     err |-> NilErr, wait |-> 0, exit |-> "",
     drawn |-> 0, slept |-> 0,
     got |-> [status |-> 0, body |-> Nil, err |-> NilErr]]

NoCalls == calls = [e \in Execs |-> NoExec]

\* goroutine e calls c.RequestWithRetry(req, GoTries)
GoCall(e) ==
    /\ calls[e].pc = "idle"
    /\ calls' = [calls EXCEPT ![e].pc = "loop", ![e].maxTries = GoTries]
    /\ UNCHANGED <<cfgVars, callVars, reqVars, fnVars, semVars,
                   sync, pairVars>>

\* e leaves the loop with tries = maxTries: tries--, return
GoLoopExit(e) ==
    /\ calls[e].pc = "loop"
    /\ ~(calls[e].tries < calls[e].maxTries)
    /\ calls' = [calls EXCEPT ![e].tries = calls[e].tries - 1,
                              ![e].exit = "exhausted",
                              ![e].pc = "done"]
    /\ UNCHANGED <<cfgVars, callVars, reqVars, fnVars, semVars,
                   sync, pairVars>>

\* GoNextWait as a step that keeps wait in the client, for every call
GoNextWaitShared(e) ==
    /\ calls[e].pc = "loop"
    /\ calls[e].tries < calls[e].maxTries
    /\ \E w \in Next(calls[e].wait) :
        calls' = [d \in Execs |->
                   IF d = e
                     THEN [calls[d] EXCEPT !.wait = w, !.drawn = w, !.pc = "send"]
                     ELSE [calls[d] EXCEPT !.wait = w]]
    /\ UNCHANGED <<cfgVars, callVars, reqVars, fnVars, semVars,
                   sync, pairVars>>

\* e: wait = c.Next(wait); drawn remembers what this call's Next returned
GoNextWait(e) ==
    /\ calls[e].pc = "loop"
    /\ calls[e].tries < calls[e].maxTries
    /\ \E w \in Next(calls[e].wait) :
        calls' = [calls EXCEPT ![e].wait = w, ![e].drawn = w, ![e].pc = "send"]
    /\ UNCHANGED <<cfgVars, callVars, reqVars, fnVars, semVars,
                   sync, pairVars>>

\* e: status, body, err = c.RequestWithClose(req), then the checks of err
\* and status; got remembers what this call's request came back with
GoSend(e) ==
    /\ calls[e].pc = "send"
    /\ \E t \in GoTransports :
        LET o == RequestWithClose(t) IN
        calls' = [calls EXCEPT ![e].status = o.status,
                               ![e].body = o.body,
                               ![e].err = o.err,
                               ![e].got = o,
                               ![e].pc = IF Retries(o) THEN "sleep" ELSE "done",
                               ![e].exit = IF Retries(o) THEN ""
                                           ELSE IF o.err # NilErr THEN "fatal"
                                           ELSE "status"]
    /\ UNCHANGED <<cfgVars, callVars, reqVars, fnVars, semVars,
                   sync, pairVars>>

\* e: time.Sleep(wait ms); continue, with the loop's tries++
GoSleep(e) ==
    /\ calls[e].pc = "sleep"
    /\ calls' = [calls EXCEPT ![e].slept = calls[e].slept + 1,
                              ![e].tries = calls[e].tries + 1,
                              ![e].pc = "loop"]
    /\ UNCHANGED <<cfgVars, callVars, reqVars, fnVars, semVars,
                   sync, pairVars>>

\* the two retrying executors
Fns == {"RequestWithRetry", "DoRequest"}

\* What the transport does with the body-less requests of the two calls.
PairTransports ==
    { Resp(200, "OK"), Resp(500, "Internal Server Error"),
      Fail(ErrTimeout), Fail(ErrRefused) }

\* Backoff.Next when the random source yields u: rand.Intn(n) is a function
\* of what the source yields and of n, with values in 0..n-1
NextDrawn(previous, u) ==
    LET sleep == Wrap((u % IntnArg(previous)) + BaseSleep)
    IN  IF sleep > MaxSleep THEN MaxSleep ELSE sleep

\* a call not made yet: named results and wait at their zero values; sends
\* counts its requests, sleeps lists the durations of its time.Sleep calls
NoRun ==
    [pc |-> "idle", tries |-> 0, status |-> 0, body |-> Nil, err |-> NilErr,
     wait |-> 0, exit |-> "", req |-> NilReq, sends |-> 0, sleeps |-> <<>>]

NoPair ==
    /\ feed = [maxTries |-> 0, t |-> <<>>, u |-> <<>>]
    /\ both = [f \in Fns |-> NoRun]

\* c.RequestWithRetry(req, maxTries) with a request that has no body, or
\* c.DoRequest(method, url, nil, maxTries, nil) with a well-formed method
\* and url
PairCall(f) ==
    /\ both[f].pc = "idle"
    /\ both' = [both EXCEPT ![f].pc = "loop",
                            ![f].req = IF f = "RequestWithRetry"
                                         THEN NewRequest(Nil, FALSE) ELSE NilReq]
    /\ UNCHANGED feed
    /\ UNCHANGED <<semVars, execVars, fnVars, calls, sync>>

\* f leaves the loop with tries = maxTries: tries--, return
PairLoopExit(f) ==
    /\ both[f].pc = "loop"
    /\ ~(both[f].tries < feed.maxTries)
    /\ both' = [both EXCEPT ![f].tries = both[f].tries - 1,
                            ![f].exit = "exhausted",
                            ![f].pc = "done"]
    /\ UNCHANGED feed
    /\ UNCHANGED <<semVars, execVars, fnVars, calls, sync>>

\* PairNextWait with DoRequest's wait declared inside its loop
PairNextWaitLocalWait(f) ==
    /\ both[f].pc = "loop"
    /\ both[f].tries < feed.maxTries
    /\ LET k == both[f].tries + 1
           previous == IF f = "DoRequest" THEN 0 ELSE both[f].wait
       IN  \E u \in 0..MaxDraw :
             /\ k <= Len(feed.u) => u = feed.u[k]
             /\ feed' = IF k <= Len(feed.u) THEN feed
                        ELSE [feed EXCEPT !.u = Append(feed.u, u)]
             /\ both' = [both EXCEPT
                           ![f].wait = NextDrawn(previous, u),
                           ![f].req = IF f = "DoRequest"
                                        THEN NewRequest(Nil, FALSE)
                                        ELSE both[f].req,
                           ![f].pc = "send"]
    /\ UNCHANGED <<semVars, execVars, fnVars, calls, sync>>

\* wait = c.Next(wait) in round tries + 1, in DoRequest after the request
\* of the round is built; the draw of the round is the one the other call
\* got in that round, or a new one
PairNextWait(f) ==
    /\ both[f].pc = "loop"
    /\ both[f].tries < feed.maxTries
    /\ LET k == both[f].tries + 1
       IN  \E u \in 0..MaxDraw :
             /\ k <= Len(feed.u) => u = feed.u[k]
             /\ feed' = IF k <= Len(feed.u) THEN feed
                        ELSE [feed EXCEPT !.u = Append(feed.u, u)]
             /\ both' = [both EXCEPT
                           ![f].wait = NextDrawn(both[f].wait, u),
                           ![f].req = IF f = "DoRequest"
                                        THEN NewRequest(Nil, FALSE)
                                        ELSE both[f].req,
                           ![f].pc = "send"]
    /\ UNCHANGED <<semVars, execVars, fnVars, calls, sync>>

\* status, body, err = c.RequestWithClose(req), then the checks of err
\* and status; the transport's outcome for the request of this round is
\* the one the other call got in that round, or a new one
PairSend(f) ==
    /\ both[f].pc = "send"
    /\ LET k == both[f].sends + 1
       IN  \E t \in PairTransports \cap Sendable(both[f].req) :
             /\ k <= Len(feed.t) => t = feed.t[k]
             /\ feed' = IF k <= Len(feed.t) THEN feed
                        ELSE [feed EXCEPT !.t = Append(feed.t, t)]
             /\ LET o == RequestWithClose(t) IN
                \E r \in AfterSend(both[f].req, t) :
                  both' = [both EXCEPT
                             ![f].status = o.status,
                             ![f].body = o.body,
                             ![f].err = o.err,
                             ![f].req = r,
                             ![f].sends = k,
                             ![f].pc = IF Retries(o) THEN "sleep" ELSE "done",
                             ![f].exit = IF Retries(o) THEN ""
                                         ELSE IF o.err # NilErr THEN "fatal"
                                         ELSE "status"]
    /\ UNCHANGED <<semVars, execVars, fnVars, calls, sync>>

\* time.Sleep(wait ms); continue, with the loop's tries++
PairSleep(f) ==
    /\ both[f].pc = "sleep"
    /\ both' = [both EXCEPT ![f].sleeps = Append(both[f].sleeps, both[f].wait),
                            ![f].tries = both[f].tries + 1,
                            ![f].pc = "loop"]
    /\ UNCHANGED feed
    /\ UNCHANGED <<semVars, execVars, fnVars, calls, sync>>

(* ------------------------- specifications ------------------------------ *)

SemInit ==
    /\ \E n \in 1..MaxCap : NewSemaphore(n)
    /\ pc = [p \in Procs |-> "idle"]
    /\ ctx = [p \in Procs |-> "background"]
    /\ fired = [p \in Procs |-> FALSE]
    /\ view = [p \in Procs |-> FALSE]
    /\ late = [p \in Procs |-> FALSE]
    /\ last = NoCall
    /\ balance = 0
    /\ StdClient
    /\ NoRequest
    /\ NoApply
    /\ NoCalls
    /\ NoSync
    /\ NoPair

SemNext ==
    \E p \in Procs :
        \/ ObtainCall(p)
        \/ ObtainSend(p)
        \/ ObtainDone(p)
        \/ Cancel(p)
        \/ Release(p)
        \/ Capacity(p)
        \/ Count(p)
        \/ Close(p)
        \/ Closed(p)

SemSpec == SemInit /\ [][SemNext]_vars

\* The scheduler runs a goroutine whose select has a case that is ready.
SemFairSpec ==
    SemSpec /\ \A p \in Procs : WF_vars(ObtainSend(p) \/ ObtainDone(p))

\* a client with a valid Backoff, and no call made yet
ExecInit ==
    /\ TimeoutOnly \in BOOLEAN
    /\ BaseSleep \in 1..MaxBase
    /\ MaxSleep \in BaseSleep..MaxCeil
    /\ NoRequest
    /\ NoApply
    /\ NoCalls
    /\ NoSync
    /\ NoPair
    /\ NewSemaphore(1)
    /\ pc = [p \in Procs |-> "idle"]
    /\ ctx = [p \in Procs |-> "background"]
    /\ fired = [p \in Procs |-> FALSE]
    /\ view = [p \in Procs |-> FALSE]
    /\ late = [p \in Procs |-> FALSE]
    /\ last = NoCall
    /\ balance = 0

ExecNext ==
    \/ Call
    \/ LoopExit
    \/ NewRequestFails
    \/ NextWait
    \/ Send
    \/ Sleep

ExecSpec == ExecInit /\ [][ExecNext]_vars

\* a client made by a struct literal: nothing checks its Backoff
ExecAnyInit ==
    /\ TimeoutOnly \in BOOLEAN
    /\ BaseSleep \in MinBase..MaxBase
    /\ MaxSleep = MaxCeil
    /\ NoRequest
    /\ NoApply
    /\ NoCalls
    /\ NoSync
    /\ NoPair
    /\ NewSemaphore(1)
    /\ pc = [p \in Procs |-> "idle"]
    /\ ctx = [p \in Procs |-> "background"]
    /\ fired = [p \in Procs |-> FALSE]
    /\ view = [p \in Procs |-> FALSE]
    /\ late = [p \in Procs |-> FALSE]
    /\ last = NoCall
    /\ balance = 0

ExecAnySpec == ExecAnyInit /\ [][ExecNext]_vars

\* a semaphore nobody calls
NoCallers ==
    /\ NewSemaphore(1)
    /\ pc = [p \in Procs |-> "idle"]
    /\ ctx = [p \in Procs |-> "background"]
    /\ fired = [p \in Procs |-> FALSE]
    /\ view = [p \in Procs |-> FALSE]
    /\ late = [p \in Procs |-> FALSE]
    /\ last = NoCall
    /\ balance = 0

\* NWorkers goroutines on a semaphore of fewer slots
SyncInit ==
    /\ \E k \in 1..MaxCap : k < NWorkers /\ NewSync(k)
    /\ StdClient
    /\ NoRequest
    /\ NoApply
    /\ NoCalls
    /\ NoPair
    /\ NoCallers

SyncNext ==
    \/ \E i \in Workers :
        \/ SyncObtain(i)
        \/ SyncSelect(i)
        \/ SyncWake(i)
        \/ SyncDone(i)
    \/ SyncAwake
    \/ SyncCount
    \/ SyncRelease
    \/ SyncWait

SyncSpec == SyncInit /\ [][SyncNext]_vars

\* The scheduler runs every goroutine that can run, and the main
\* goroutine's sleep ends.
SyncFairSpec ==
    /\ SyncSpec
    /\ \A i \in Workers :
         WF_vars(SyncObtain(i) \/ SyncSelect(i) \/ SyncWake(i) \/ SyncDone(i))
    /\ WF_vars(SyncAwake \/ SyncCount \/ SyncRelease \/ SyncWait)

\* a client with a valid Backoff whose MaxSleep is the largest int
ExecWideInit ==
    /\ TimeoutOnly \in BOOLEAN
    /\ BaseSleep \in 1..MaxCeil
    /\ MaxSleep = MaxInt
    /\ NoRequest
    /\ NoApply
    /\ NoCalls
    /\ NoSync
    /\ NoPair
    /\ NoCallers

ExecWideSpec == ExecWideInit /\ [][ExecNext]_vars

\* Backoff.Next on its own: any Backoff with 0 < BaseSleep <= MaxSleep
BackoffInit ==
    /\ TimeoutOnly = TRUE
    /\ BaseSleep \in 1..MaxInt
    /\ MaxSleep \in BaseSleep..MaxInt
    /\ NoRequest
    /\ NoApply
    /\ NoCalls
    /\ NoSync
    /\ NoPair
    /\ NoCallers

BackoffNext == ApplyNext

BackoffSpec == BackoffInit /\ [][BackoffNext]_vars

\* one client with a valid Backoff, and the maxTries both calls are given
PairInit ==
    /\ TimeoutOnly \in BOOLEAN
    /\ BaseSleep = 1
    /\ MaxSleep = MaxCeil
    /\ NoRequest
    /\ NoApply
    /\ NoCalls
    /\ NoSync
    /\ NoCallers
    /\ \E m \in MinTries..GoTries :
         feed = [maxTries |-> m, t |-> <<>>, u |-> <<>>]
    /\ both = [f \in Fns |-> NoRun]

PairNext ==
    \E f \in Fns :
        \/ PairCall(f)
        \/ PairLoopExit(f)
        \/ PairNextWait(f)
        \/ PairSend(f)
        \/ PairSleep(f)

PairSpec == PairInit /\ [][PairNext]_vars

\* one client with a valid Backoff, shared by the concurrent calls
ConcInit ==
    /\ TimeoutOnly \in BOOLEAN
    /\ BaseSleep = 1
    /\ MaxSleep = MaxBase
    /\ NoRequest
    /\ NoApply
    /\ NoCalls
    /\ NoSync
    /\ NoPair
    /\ NoCallers

ConcNext ==
    \E e \in Execs :
        \/ GoCall(e)
        \/ GoLoopExit(e)
        \/ GoNextWait(e)
        \/ GoSend(e)
        \/ GoSleep(e)

ConcSpec == ConcInit /\ [][ConcNext]_vars

\* ShouldRetry on its own
StatusInit ==
    /\ StdClient
    /\ NoRequest
    /\ NoApply
    /\ NoCalls
    /\ NoSync
    /\ NoPair
    /\ NoCallers

StatusNext == ApplyShouldRetry

StatusSpec == StatusInit /\ [][StatusNext]_vars

(* ----------------------- properties: semaphore -------------------------- *)

\* C1: for a semaphore of capacity n >= 1, under every interleaving of
\* Obtain, Release, Close, Count, Capacity and Closed calls by concurrent
\* callers, 0 <= Count() <= Capacity(): the buffer never holds more than
\* capacity slots, before or after any call, and Count never reports more.
C1_CountWithinCapacity ==
    /\ capacity >= 1
    /\ 0 <= Len_sem /\ Len_sem <= capacity
    /\ last.op # "none" => (last.pre <= capacity /\ last.post <= capacity)
    /\ last.op = "Count" => (0 <= last.val /\ last.val <= capacity)

\* Count() reports a full semaphore while a caller is blocked in Obtain
C1_Witness ==
    /\ last.op = "Count"
    /\ last.val = capacity
    /\ \E p \in Procs : pc[p] = "select"

\* C7: every Obtain call that begins after a Close call has completed
\* returns false at once: it never reaches the select, never returns true
\* and never changes Count.
C7_ObtainAfterCloseReturnsFalse ==
    /\ \A p \in Procs : pc[p] = "select" => ~late[p]
    /\ (last.op = "Obtain" /\ last.late) =>
          (~last.ret /\ last.how = "closed" /\ last.post = last.pre)

\* C8 as stated: an Obtain call whose cancellation has fired returns false
\* and takes no slot.
C8_FiredObtainReturnsFalse ==
    (last.op = "Obtain" /\ last.fired) => (~last.ret /\ last.post = last.pre)

\* C8 as amended: an Obtain call that returns false takes no slot, and it
\* returns from the done case only if its cancellation has fired; an Obtain
\* call whose cancellation has fired returns false when the semaphore is
\* full, and may return true only by taking a slot that was free.
C8_FiredObtainTakesNoSlotWhenFull ==
    last.op = "Obtain" =>
        /\ ~last.ret => last.post = last.pre
        /\ last.how = "cancelled" => (last.fired /\ ~last.ret)
        /\ (last.fired /\ last.pre = capacity) =>
              (~last.ret /\ last.post = capacity)
        /\ last.ret => (last.pre < capacity /\ last.post = last.pre + 1)

\* an Obtain on a full semaphore returned false because its context was done
C8_Witness ==
    /\ last.op = "Obtain"
    /\ last.how = "cancelled"
    /\ last.fired
    /\ ~last.ret
    /\ last.pre = capacity
    /\ last.post = capacity

\* C9: an Obtain call whose cancellation has fired eventually returns,
\* whatever the other callers do; an Obtain call whose cancellation has not
\* fired stays in its select while the semaphore is full.
C9_CancelledObtainReturns ==
    /\ \A p \in Procs : (pc[p] = "select" /\ fired[p]) ~> (pc[p] = "idle")
    /\ [][\A p \in Procs :
            (pc[p] = "select" /\ ~fired[p] /\ Len_sem = capacity)
                => pc'[p] = "select"]_vars

\* one caller returned on its cancellation from a full semaphore while
\* another, whose context cannot be cancelled, is still blocked
C9_Witness ==
    /\ last.op = "Obtain"
    /\ last.how = "cancelled"
    /\ last.pre = capacity
    /\ \E q \in Procs : pc[q] = "select" /\ ctx[q] = "background"

\* C10: Release never blocks and never raises Count: with a slot held it
\* takes Count down by exactly one and returns true, with Count at 0 it
\* returns false and leaves Count at 0, closed or not.
C10_ReleaseDecrementsOrFails ==
    /\ \A p \in Procs : pc[p] = "idle" => ENABLED Release(p)
    /\ last.op = "Release" =>
          IF last.pre > 0
            THEN last.ret /\ last.post = last.pre - 1
            ELSE ~last.ret /\ last.post = 0

\* a Release on a closed, full semaphore returned true
C10_Witness ==
    /\ last.op = "Release"
    /\ last.ret
    /\ closed
    /\ last.pre = capacity

\* C11: Closed() is monotone. A Closed() that begins once a Close has
\* returned answers true, a Closed() that follows a Closed() that answered
\* true answers true, no call turns the flag back to false, and a Close of a
\* closed semaphore leaves its state as it was.
C11_ClosedIsMonotone ==
    [][ /\ closed => closed'
        /\ (closed /\ last' # last /\ last'.op = "Closed") => last'.ret
        /\ (last.op = "Closed" /\ last.ret /\ last'.op = "Closed") => last'.ret
        /\ (closed /\ last'.op = "Close") =>
               <<capacity, sem, closed>>' = <<capacity, sem, closed>>
      ]_vars

C21_CloseEvictsNoSlot ==
    [][ /\ (last' # last /\ last'.op = "Close") =>
              (sem' = sem /\ last'.post = last'.pre)
        /\ (closed /\ Len_sem > 0) =>
              \A p \in Procs : pc[p] = "idle" => ENABLED Release(p)
        /\ (closed /\ Len_sem > 0 /\ last' # last /\ last'.op = "Release") =>
              (last'.ret /\ Len(sem') = Len_sem - 1)
      ]_vars

\* the last slot held at the Close has been given back after it
C21_Witness ==
    /\ closed
    /\ last.op = "Release"
    /\ last.ret
    /\ last.pre = 1
    /\ last.post = 0
    /\ capacity = MaxCap

\* C30: on a semaphore of capacity >= 1, in every reachable state Count is
\* the number of Obtain calls that returned true less the number of Release
\* calls that returned true; an Obtain or a Release that returned false
\* left Count as it was.
C30_CountIsObtainsLessReleases ==
    capacity >= 1 =>
        /\ Len_sem = balance
        /\ (last.op \in {"Obtain", "Release"} /\ ~last.ret) =>
              last.post = last.pre
        /\ (last.op = "Obtain" /\ last.ret) => last.post = last.pre + 1
        /\ (last.op = "Release" /\ last.ret) => last.post = last.pre - 1

\* with one slot held, a waiter's Obtain has been cancelled and returned
\* false
C30_Witness ==
    /\ capacity = MaxCap
    /\ balance = 1
    /\ closed = FALSE
    /\ last.op = "Obtain"
    /\ ~last.ret
    /\ last.how = "cancelled"
    /\ last.pre = 1

\* C23: with n slots and m > n workers in Obtain without cancellation,
\* once the semaphore is full and m - n workers are blocked, the m - n
\* Release calls that follow all return true, each on a full semaphore
\* with a blocked worker and handing the slot to one of them so that Count
\* stays n; every Obtain eventually returns true, and the final Count is n.
C23_ReleasesHandSlotsToWaiters ==
    /\ [](\A k \in 1..Len(sync.released) : sync.released[k])
    /\ [][ Len(sync'.released) = Len(sync.released) + 1 =>
             /\ sync.len = sync.n
             /\ Parked # {}
             /\ sync'.len = sync.n
             /\ \E i \in Parked :
                   /\ sync'.w[i] = "woken"
                   /\ \A j \in Workers \ {i} : sync'.w[j] = sync.w[j]
         ]_vars
    /\ [](sync.main = "over" =>
            /\ Len(sync.released) = NWorkers - sync.n
            /\ sync.counted = <<sync.n, sync.n>>)
    /\ <>[](/\ \A i \in Workers : sync.w[i] = "done"
            /\ sync.main = "over"
            /\ sync.len = sync.n)

\* one slot, three workers: two Releases in a row returned true and the
\* run is over with Count at 1
C23_Witness ==
    /\ sync.n = 1
    /\ sync.main = "over"
    /\ sync.released = <<TRUE, TRUE>>
    /\ sync.counted = <<1, 1>>
    /\ \A i \in Workers : sync.w[i] = "done"

\* C19: a new semaphore has Count() = 0, Capacity() = n and Closed() = false,
\* and Capacity() answers n after any sequence of calls.
C19_FreshSemaphore ==
    /\ Len_sem = 0 /\ ~closed /\ capacity \in 1..MaxCap
    /\ [][ /\ capacity' = capacity
           /\ (last' # last /\ last'.op = "Capacity") => last'.val = capacity
           /\ (last = NoCall /\ last'.op = "Count") => last'.val = 0
           /\ (last = NoCall /\ last'.op = "Closed") => ~last'.ret
         ]_vars

\* Capacity() answered on a closed semaphore with slots in use
C19_Witness ==
    /\ last.op = "Capacity"
    /\ last.val = capacity
    /\ last.pre > 0
    /\ closed

\* C20: the cancellation of one blocked Obtain, and that Obtain's return,
\* leave the count and the closed flag as they were and every other caller
\* blocked where it was, its context untouched.
C20_CancelTouchesOnlyItsCall ==
    [][ \A p \in Procs :
          \/ (pc[p] = "select" /\ ~fired[p] /\ fired'[p])
          \/ (pc[p] = "select" /\ pc'[p] = "idle" /\ last'.how = "cancelled")
          => /\ sem' = sem
             /\ closed' = closed
             /\ \A q \in Procs \ {p} :
                    /\ pc'[q] = pc[q]
                    /\ fired'[q] = fired[q]
                    /\ ctx'[q] = ctx[q]
      ]_vars

\* a cancelled Obtain has returned false while another caller, whose own
\* context is not done, still waits on the full semaphore
C20_Witness ==
    /\ last.op = "Obtain"
    /\ last.how = "cancelled"
    /\ ~last.ret
    /\ last.pre = capacity
    /\ \E q \in Procs : pc[q] = "select" /\ ~fired[q]

(* ------------------------ properties: executor -------------------------- *)

\* a status the retry policy names: 408 or 5xx
RetryableStatus(s) == s = 408 \/ (500 <= s /\ s <= 599)

\* an outcome after which another attempt is due
RetryableOutcome(o) ==
    IF o.err = NilErr
      THEN RetryableStatus(o.status)
      ELSE ~TimeoutOnly \/ IsTimeoutErr(o.err)

\* the outcome of the latest request sent
LastOutcome == outcomes[Len(outcomes)]

\* attempt i was followed by a sleep, or the call is about to sleep after it
Retried(i) ==
    nslept >= i \/ (xpc = "sleep" /\ i = Len(outcomes))

\* C2 as stated: with maxTries >= 1 one call sends at least 1 and at most
\* maxTries requests.
C2_SendsBetweenOneAndMaxTries ==
    maxTries >= 1 =>
        /\ Len(outcomes) <= maxTries
        /\ xpc = "done" => Len(outcomes) >= 1

\* C2 as amended: with maxTries >= 1 one call never sends more than maxTries
\* requests, and it sends at least 1 unless it is a DoRequest whose method
\* or url http.NewRequest rejects, which returns having sent none.
C2_SendsAtMostMaxTries ==
    maxTries >= 1 =>
        /\ Len(outcomes) <= maxTries
        /\ xpc = "done" =>
              IF fn = "DoRequest" /\ ~urlOk
                THEN Len(outcomes) = 0 /\ exit = "newrequest"
                ELSE Len(outcomes) >= 1

\* a call with maxTries = 3 has returned after sending 3 requests
C2_Witness ==
    /\ xpc = "done"
    /\ maxTries = 3
    /\ Len(outcomes) = 3

\* C3: if each of the maxTries >= 1 attempts ends in a retryable outcome,
\* the call returns the status, body and error of the last attempt with
\* tries = maxTries - 1; a retryable status on the last attempt comes back
\* as that status with a nil error.
C3_ExhaustionReturnsLastAttempt ==
    ( /\ xpc = "done"
      /\ maxTries >= 1
      /\ Len(outcomes) = maxTries
      /\ \A i \in 1..Len(outcomes) : RetryableOutcome(outcomes[i]) ) =>
        /\ exit = "exhausted"
        /\ tries = maxTries - 1
        /\ status = LastOutcome.status
        /\ body = LastOutcome.body
        /\ err = LastOutcome.err
        /\ LastOutcome.err = NilErr => (err = NilErr /\ RetryableStatus(status))

\* three attempts all answered 500: status 500, nil error, tries 2
C3_Witness ==
    /\ xpc = "done"
    /\ exit = "exhausted"
    /\ maxTries = 3
    /\ tries = 2
    /\ status = 500
    /\ err = NilErr

\* C4: an attempt that gets a response without error and with a status
\* that is not retryable is the last one: the call has returned that status
\* and body with a nil error and tries = the number of attempts before it,
\* without a sleep or a request after it.
C4_NonRetryableStatusReturnsAtOnce ==
    \A i \in 1..Len(outcomes) :
        (outcomes[i].err = NilErr /\ ~RetryableStatus(outcomes[i].status)) =>
            /\ i = Len(outcomes)
            /\ xpc = "done"
            /\ exit = "status"
            /\ status = outcomes[i].status
            /\ body = outcomes[i].body
            /\ err = NilErr
            /\ tries = i - 1
            /\ nslept = i - 1

\* a 403 on the second attempt: returned with tries = 1 after one sleep
C4_Witness ==
    /\ xpc = "done"
    /\ exit = "status"
    /\ status = 403
    /\ tries = 1
    /\ nslept = 1

\* C5: with TimeoutOnly true, an attempt that fails with an error that is
\* not a timeout is the last one: the call has returned that error, no sleep
\* and no request follows whatever budget is left, and tries = the number of
\* attempts before it.
C5_FatalErrorReturnsAtOnce ==
    TimeoutOnly =>
        \A i \in 1..Len(outcomes) :
            (outcomes[i].err # NilErr /\ ~IsTimeoutErr(outcomes[i].err)) =>
                /\ i = Len(outcomes)
                /\ xpc = "done"
                /\ exit = "fatal"
                /\ err = outcomes[i].err
                /\ tries = i - 1
                /\ nslept = i - 1

\* connection refused on the second of three allowed attempts
C5_Witness ==
    /\ TimeoutOnly
    /\ xpc = "done"
    /\ exit = "fatal"
    /\ err = ErrRefused
    /\ tries = 1
    /\ maxTries = 3

\* C6: an attempt's error is retried (sleep for the current wait, count the
\* attempt, next round) if and only if TimeoutOnly is false or the error is
\* a timeout; with TimeoutOnly true and a timeout on every attempt the call
\* returns a timeout error with tries = maxTries - 1.
C6_ErrorRetriedIffTimeoutOrAny ==
    /\ \A i \in 1..Len(outcomes) :
          outcomes[i].err # NilErr =>
              (Retried(i) <=> (~TimeoutOnly \/ IsTimeoutErr(outcomes[i].err)))
    /\ (xpc = "loop" /\ Len(outcomes) > 0) =>
          (lastSleep = wait /\ nslept = Len(outcomes) /\ tries = Len(outcomes))
    /\ ( /\ xpc = "done"
         /\ TimeoutOnly
         /\ maxTries >= 1
         /\ Len(outcomes) >= 1
         /\ \A i \in 1..Len(outcomes) : IsTimeoutErr(outcomes[i].err) ) =>
          (IsTimeoutErr(err) /\ tries = maxTries - 1)

\* TimeoutOnly, three attempts, each one timed out at the transport
C6_Witness ==
    /\ TimeoutOnly
    /\ xpc = "done"
    /\ exit = "exhausted"
    /\ maxTries = 3
    /\ tries = 2
    /\ Len(outcomes) = 3
    /\ \A i \in 1..Len(outcomes) : outcomes[i] = RequestWithClose(Fail(ErrTimeout))

\* C13: every response the transport returned has had its body closed by
\* the time the attempt that received it has returned.
C13_ResponseBodyClosed ==
    unclosed = 0

\* C17: every request DoRequest sends, the first and every retry, is one
\* built for that attempt: no c.Do has received it before, its body is the
\* whole of the caller's content and the caller's hook has run on it.
C17_DoRequestSendsFreshRequest ==
    (fn = "DoRequest" /\ Len(outcomes) > 0) =>
        /\ sent.fresh
        /\ sent.body = content
        /\ sent.hooked = hook

\* the third attempt of a DoRequest with content and a hook has been sent
C17_Witness ==
    /\ fn = "DoRequest"
    /\ content = "foo"
    /\ hook
    /\ Len(outcomes) = 3
    /\ sent = NewRequest("foo", TRUE)

Running == xpc \in {"loop", "send", "sleep"}

\* The steps a running call has left at most: three for each round the
\* loop condition still allows, and those left of the round it is in.
Measure ==
    3 * (IF maxTries > tries THEN maxTries - tries ELSE 0)
      + (CASE xpc = "loop" -> 2 [] xpc = "send" -> 1 [] OTHER -> 0)

\* C27: a call of RequestWithRetry or DoRequest terminates, given that
\* every send returns and every sleep ends: a running call always has a
\* next step, and each step either returns (non-retryable status, fatal
\* error, retries exhausted) or leaves it running with fewer steps left,
\* whatever the transport answers.
C27_CallTerminates ==
    /\ [](Running => ENABLED <<ExecNext>>_vars)
    /\ [][ Running =>
             \/ xpc' = "done" /\ exit' \in {"status", "fatal", "exhausted",
                                            "newrequest"}
             \/ Running' /\ Measure' < Measure
         ]_vars

\* a call that was kept running as long as the transport can keep it:
\* three rounds, each one retried, then the return
C27_Witness ==
    /\ xpc = "done"
    /\ maxTries = MaxTries
    /\ nslept = MaxTries
    /\ Len(outcomes) = MaxTries

\* C28: RequestWithRetry with maxTries >= 1 returns, on each of its return
\* paths, tries = the number of requests sent minus one, a number in
\* 0..maxTries-1; a success on the last allowed attempt and an exhaustion
\* both return maxTries - 1.
C28_TriesIsSendsMinusOne ==
    (fn = "RequestWithRetry" /\ maxTries >= 1 /\ xpc = "done") =>
        /\ exit \in {"status", "fatal", "exhausted"}
        /\ tries = Len(outcomes) - 1
        /\ tries \in 0..(maxTries - 1)
        /\ Len(outcomes) = maxTries => tries = maxTries - 1

\* a 200 on the last of three allowed attempts: tries = 2, as at exhaustion
C28_Witness ==
    /\ fn = "RequestWithRetry"
    /\ xpc = "done"
    /\ exit = "status"
    /\ maxTries = 3
    /\ Len(outcomes) = 3
    /\ status = 200
    /\ tries = 2

\* C29: the status, body and error a call returns are those of the last
\* attempt it made, on every return path. After an attempt with a
\* retryable status, an attempt whose send fails returns that error with
\* status 0 and no body.
C29_ReturnsLastAttemptOnly ==
    (xpc = "done" /\ Len(outcomes) >= 1) =>
        /\ <<status, body, err>> =
             <<LastOutcome.status, LastOutcome.body, LastOutcome.err>>
        /\ ( /\ Len(outcomes) >= 2
             /\ sent.body # Drained
             /\ outcomes[Len(outcomes) - 1].err = NilErr
             /\ err \in {ErrTimeout, ErrRefused}
             /\ body = Nil ) => status = 0
        /\ (err \in {ErrRefused, ErrBodyLength}) => (status = 0 /\ body = Nil)

\* a 500 with a body, then connection refused: status 0, no body
C29_Witness ==
    /\ xpc = "done"
    /\ Len(outcomes) = 2
    /\ outcomes[1] = RequestWithClose(Resp(500, "Internal Server Error"))
    /\ err = ErrRefused
    /\ status = 0
    /\ body = Nil

\* C31: a call of RequestWithRetry or DoRequest with maxTries <= 0 sends
\* no request, does not sleep and does not call Backoff.Next (wait stays
\* 0, DoRequest builds no request), and returns tries = -1, status 0, a nil
\* body and a nil error.
C31_NoTriesNoRequest ==
    (xpc # "idle" /\ maxTries <= 0) =>
        /\ xpc \in {"loop", "done"}
        /\ outcomes = <<>>
        /\ nslept = 0
        /\ wait = 0
        /\ sent = NilReq
        /\ fn = "DoRequest" => req = NilReq
        /\ xpc = "done" =>
              /\ exit = "exhausted"
              /\ tries = 0 - 1
              /\ status = 0
              /\ body = Nil
              /\ err = NilErr

\* DoRequest with a malformed URL and maxTries = -1 has returned -1 and a
\* nil error
C31_Witness ==
    /\ fn = "DoRequest"
    /\ ~urlOk
    /\ maxTries = MinTries
    /\ xpc = "done"
    /\ tries = 0 - 1
    /\ err = NilErr

\* an attempt is under way: the round has begun or its request is out
Attempting ==
    xpc = "send" \/ (xpc = "loop" /\ tries < maxTries)

\* C22: the call moves Attempting -> {Sleeping -> Attempting} -> terminal.
\* Every sleep is followed by another attempt, a terminal state is entered
\* from an attempt and from nowhere else, and it is never left.
C22_SleepsOnlyBetweenAttempts ==
    [][ maxTries >= 1 =>
          /\ xpc = "sleep" => (xpc' = "loop" /\ tries' < maxTries)
          /\ (xpc # "done" /\ xpc' = "done") => Attempting
          /\ xpc = "done" => xpc' = "done"
      ]_vars

(* ------------------- properties: Backoff, ShouldRetry -------------------- *)

\* C14: with 0 < BaseSleep <= MaxSleep and previous >= 0, Next(previous)
\* does not panic and returns a value in [BaseSleep, MaxSleep], whatever
\* rand.Intn draws.
C14_NextWithinSleepRange ==
    /\ fpc # "panic"
    /\ fpc = "Next" => (BaseSleep <= ret /\ ret <= MaxSleep)

\* C26: with 0 < BaseSleep <= MaxSleep, Next(0) behaves as Next(BaseSleep),
\* and the first wait of a retry sequence, Next(0), lies in
\* [BaseSleep, min(MaxSleep, 3*BaseSleep - 1)].
C26_FirstWaitBelowThreeBase ==
    /\ IntnArg(0) = IntnArg(BaseSleep)
    /\ Next(0) = Next(BaseSleep)
    /\ (fpc # "idle" /\ arg = 0) =>
          /\ fpc = "Next"
          /\ BaseSleep <= ret
          /\ ret <= MaxSleep
          /\ ret <= 3 * BaseSleep - 1

\* C25: in one call the wait starts at 0 and becomes Next(wait) before
\* every send, and the sleep after a failed attempt lasts that wait; with
\* 0 < BaseSleep <= MaxSleep every sleep is in [BaseSleep, MaxSleep], and
\* below 3 * max(previous wait, BaseSleep) unless it is MaxSleep.
C25_SleepsFollowBackoff ==
    [][ /\ (xpc = "idle" /\ xpc' = "loop") => wait' = 0
        /\ (xpc = "loop" /\ xpc' = "send") => wait' \in Next(wait)
        /\ xpc = "send" => wait' = wait
        /\ xpc = "sleep" =>
              /\ wait' = wait
              /\ lastSleep' = wait
              /\ BaseSleep <= lastSleep'
              /\ lastSleep' <= MaxSleep
              /\ \/ lastSleep' = MaxSleep
                 \/ \E p \in 0..MaxInt :
                       /\ wait \in Next(p)
                       /\ lastSleep' < 3 * (IF p <= BaseSleep THEN BaseSleep ELSE p)
      ]_vars

\* C15: a client with BaseSleep <= 0 is refused when it is made, so no call
\* gets as far as Backoff.Next with BaseSleep <= 0.
C15_NoSamplingWithoutBase ==
    xpc \in {"send", "panic"} => BaseSleep > 0

\* C16: ShouldRetry(status) is true exactly for 408 and for 500..599; so
\* it is for 501, 505 and 511, and it is not for 200, 400 and the other 4xx.
C16_ShouldRetryIff408Or5xx ==
    fpc = "ShouldRetry" =>
        /\ retry <=> (arg \in {408} \cup 500..599)
        /\ arg \in {501, 505, 511} => retry
        /\ arg \in {200, 400} \cup (400..499 \ {408}) => ~retry

\* ShouldRetry has been applied to 511 and returned true
C16_Witness ==
    /\ fpc = "ShouldRetry"
    /\ arg = 511
    /\ retry

(* --------------------- properties: concurrent calls ---------------------- *)

\* C18: calls that share one SafeClient do not interfere. A step of one call
\* changes nothing of any other call and nothing of the client; and each
\* call's wait is the value its own Next returned last, its tries counts its
\* own sleeps, and its status, body and err are those its own latest request
\* came back with.
C18_ConcurrentCallsDoNotInterfere ==
    /\ [](\A e \in Execs :
            LET c == calls[e] IN
            /\ c.wait = c.drawn
            /\ c.tries = IF c.exit = "exhausted" THEN c.slept - 1 ELSE c.slept
            /\ c.pc # "idle" => c.maxTries = GoTries
            /\ c.status = c.got.status /\ c.body = c.got.body /\ c.err = c.got.err)
    /\ [][ /\ cfgVars' = cfgVars
           /\ \A e \in Execs :
                calls'[e] # calls[e] =>
                    \A d \in Execs \ {e} : calls'[d] = calls[d]
         ]_vars

\* two calls have run side by side to different ends: one returned 200 at
\* once, the other used up its tries on timeouts
C18_Witness ==
    \E e, d \in Execs :
        /\ calls[e].pc = "done" /\ calls[e].exit = "status"
        /\ calls[e].status = 200 /\ calls[e].tries = 0
        /\ calls[d].pc = "done" /\ calls[d].exit = "exhausted"
        /\ calls[d].err = ErrTimeout /\ calls[d].tries = GoTries - 1
        /\ calls[d].wait # calls[e].wait

(* ------------------ properties: the two executors ------------------------ *)

\* s is an initial part of t
IsPrefix(s, t) ==
    Len(s) <= Len(t) /\ \A k \in 1..Len(s) : s[k] = t[k]

\* C32: for a request without a body and a well-formed method and URL,
\* RequestWithRetry(req, maxTries) and DoRequest(method, url, nil, maxTries,
\* nil), fed the same transport outcomes and the same draws, send the same
\* number of requests, sleep the same durations in the same order and
\* return the same tries, status, body and error.
C32_ExecutorsAgree ==
    LET a == both["RequestWithRetry"]
        b == both["DoRequest"]
    IN  /\ IsPrefix(a.sleeps, b.sleeps) \/ IsPrefix(b.sleeps, a.sleeps)
        /\ (a.pc = "done" /\ b.pc = "done") =>
              /\ a.sends = b.sends
              /\ a.sleeps = b.sleeps
              /\ <<a.tries, a.status, a.body, a.err>> =
                   <<b.tries, b.status, b.body, b.err>>
              /\ a.exit = b.exit

\* both calls got 500 twice, slept 2 ms and then 3 ms, and returned the
\* second 500 with tries = 1
C32_Witness ==
    /\ feed.maxTries = 2
    /\ \A f \in Fns :
         /\ both[f].pc = "done"
         /\ both[f].sends = 2
         /\ both[f].sleeps = <<2, 3>>
         /\ both[f].status = 500
         /\ both[f].tries = 1

====
